---- MODULE Spec2Model ----
(***************************************************************************)
(* Model of minicoro-awaiters (src/src/lib.rs).                            *)
(*                                                                         *)
(* CoroutineFuture (the Wrapper) owns a stackful coroutine whose user data *)
(* is an AtomicWaker (the mailbox).  CoroutineFuture::poll registers the   *)
(* caller's waker in the mailbox and resumes the coroutine.  Inside the    *)
(* coroutine the body calls CoroutineAwaiter::await (blockOn), which takes *)
(* the waker out of the mailbox, polls the inner future with it and yields *)
(* when the future is Pending or the mailbox is empty.  CoroutineToken::   *)
(* exec (the Adapter) runs a value-returning body in a CoroutineFuture and *)
(* passes the value out through a MaybeUninit cell.                        *)
(*                                                                         *)
(* The body is a sequence of blockOn calls, one per inner task; it returns *)
(* the output of its last blockOn.  The two stacks are modelled by two     *)
(* program counters: ppc (polling side) and at/k (coroutine side).         *)
(* A continuation handle is identified by the number of the Wrapper.poll   *)
(* call that deposited it.                                                 *)
(***************************************************************************)
EXTENDS Integers, Sequences, FiniteSets, TLC

\* ------------------------------------------------------------------ bounds
MaxTasks == 2
MaxPend  == 2
MaxVal   == 2
MaxPolls == 8

\* ------------------------------------------------------- program constants
\* Option::None returned by AtomicWaker::take on an empty mailbox.
NoHandle == 0
\* MaybeUninit::uninit(): the output cell before c.write(v).
Uninit == 0

VARIABLES
    mode,       \* "wrapper": a bare CoroutineFuture; "exec": CoroutineToken.exec
    tasks,      \* the body: the inner tasks it blocks on, in order
    left,       \* per task: "not ready" polls still to come
    polled,     \* per task: number of times blockOn polled it
    holds,      \* per task: the handle its last Pending poll registered
    yieldCnt,   \* per task: yields made by its blockOn invocation
    coState,    \* "NotStarted" | "Running" | "Suspended" | "Finished"
    k,          \* index of the blockOn the body is in
    at,         \* position of the coroutine inside the body
    t,          \* the local `t` of await: the handle taken from the mailbox
    ret,        \* value returned by the last completed blockOn
    mailbox,    \* AtomicWaker user data: NoHandle or a handle
    ppc,        \* position of the polling side
    npolls,     \* number of Wrapper.poll calls begun (= current handle)
    results,    \* results of the Wrapper.poll calls that returned
    ran,        \* did the coroutine execute during the current poll call
    woken,      \* has a handle been invoked since the last poll began
    cell,       \* exec's output cell
    cellWrites, \* number of writes to the cell
    cellReads,  \* number of reads of the cell
    execOut,    \* value exec completed with (Uninit while not complete)
    alive,      \* the Wrapper has not been dropped
    stackAlloc, \* the coroutine (stack and control block) is allocated
    boxAlloc,   \* the Box holding the body closure is allocated
    bodyCalls,  \* number of invocations of the body closure
    pollLog,    \* the inner-task polls made so far: task, handle used, and
                \* the Wrapper.poll call during which the poll was made
    reads       \* mailbox reads made since the current poll call began

vars == << mode, tasks, left, polled, holds, yieldCnt, coState, k, at, t, ret,
           mailbox, ppc, npolls, results, ran, woken, cell, cellWrites,
           cellReads, execOut, alive, stackAlloc, boxAlloc, bodyCalls,
           pollLog, reads >>

coVars   == << coState, k, at, t, ret >>
taskVars == << left, polled, holds, yieldCnt >>
cellVars == << cell, cellWrites, cellReads, execOut >>
resVars  == << alive, stackAlloc, boxAlloc, bodyCalls >>
logVars  == << pollLog, reads >>

Values == 1..MaxVal

\* An inner task: returns Pending on its first `need` polls and Ready(val)
\* on the next one; a task with ends = FALSE returns Pending on every poll.
TaskSet ==
    { [need |-> n, val |-> v, ends |-> TRUE] : n \in 0..MaxPend, v \in Values }
    \cup { [need |-> 0, val |-> v, ends |-> FALSE] : v \in Values }

Bodies == UNION { [1..n -> TaskSet] : n \in 1..MaxTasks }

NTasks == Len(tasks)

\* ------------------------------------------------- pieces of the code
\* Mutant of Register: the handle is not deposited.
RegisterKeep(mb, h) == mb

\* AtomicWaker::register(&cx.waker()): the mailbox holds the new handle,
\* whatever it held before.
Register(mb, h) == h

\* Mutant of Take: the handle is read but left in the mailbox.
TakePeek(mb) == [got |-> mb, rest |-> mb]

\* AtomicWaker::take(): the handle, and the mailbox is left empty.
Take(mb) == [got |-> mb, rest |-> NoHandle]

\* f.as_mut().poll(..): Ready exactly when no "not ready" poll is left.
InnerReady(i) == tasks[i].ends /\ left[i] = 0

\* Mutant of Resumable: a coroutine that has returned is resumed again.
ResumableAny(st) == st # "Running"

\* Coroutine::resume switches to the coroutine only if it is not running
\* and has not returned.
Resumable(st) == st \in {"NotStarted", "Suspended"}

\* Mutant of PollResult: the two match arms exchanged.
PollResultSwapped(p) == IF p = "gotSome" THEN "Ready" ELSE "Pending"

\* match self.coro.resume(()) { Some(_) => Pending, None => Ready(()) }
PollResult(p) == IF p = "gotSome" THEN "Pending" ELSE "Ready"

\* Mutant of CellWrite: the value is not stored.
CellWriteKeep(c, v) == c

\* c.write(v): the cell holds v.
CellWrite(c, v) == v

\* c.assume_init(): the content of the cell; any value if uninitialized.
CellRead(c) == IF c = Uninit THEN Values ELSE {c}

\* ---------------------------------------------------------------- Init
\* CoroutineFuture::new(body): the coroutine is allocated but not started,
\* the body closure sits in a leaked Box, the mailbox is the default (empty)
\* AtomicWaker.  In exec mode the cell is uninitialized.
Init ==
    /\ mode \in {"wrapper", "exec"}
    /\ tasks \in Bodies
    /\ left = [i \in 1..Len(tasks) |-> tasks[i].need]
    /\ polled = [i \in 1..Len(tasks) |-> 0]
    /\ holds = [i \in 1..Len(tasks) |-> NoHandle]
    /\ yieldCnt = [i \in 1..Len(tasks) |-> 0]
    /\ coState = "NotStarted"
    /\ k = 1
    /\ at = "entry"
    /\ t = NoHandle
    /\ ret = Uninit
    /\ mailbox = NoHandle
    /\ ppc = "idle"
    /\ npolls = 0
    /\ results = << >>
    /\ ran = FALSE
    /\ woken = TRUE
    /\ cell = Uninit
    /\ cellWrites = 0
    /\ cellReads = 0
    /\ execOut = Uninit
    /\ alive = TRUE
    /\ stackAlloc = TRUE
    /\ boxAlloc = TRUE
    /\ bodyCalls = 0
    /\ pollLog = << >>
    /\ reads = 0

\* ------------------------------------------------------- polling side
\* CoroutineFuture::poll, first statement: deposit the handle.
\* In exec mode the async block is not polled again once it has completed.
PollRegister ==
    /\ alive
    /\ ppc = "idle"
    /\ npolls < MaxPolls
    /\ mode = "exec" => execOut = Uninit
    /\ npolls' = npolls + 1
    /\ mailbox' = Register(mailbox, npolls + 1)
    /\ ppc' = "deposited"
    /\ ran' = FALSE
    /\ woken' = FALSE
    /\ reads' = 0
    /\ UNCHANGED << mode, tasks, results, pollLog >>
    /\ UNCHANGED << coVars, taskVars, cellVars, resVars >>

\* CoroutineFuture::poll, self.coro.resume(()).  A first resume enters the
\* coroutine function, which takes the body closure out of its Box
\* (Box::from_raw) and calls it.  A resume of a coroutine that has returned
\* does not switch stacks; what it hands back is either of the two shapes
\* the match in poll distinguishes.
PollResume ==
    /\ ppc = "deposited"
    /\ IF Resumable(coState)
       THEN /\ coState' = "Running"
            /\ ppc' = "resumed"
            /\ ran' = TRUE
            /\ IF coState = "NotStarted"
               THEN /\ at' = "take"
                    /\ boxAlloc' = FALSE
                    /\ bodyCalls' = bodyCalls + 1
               ELSE UNCHANGED << at, boxAlloc, bodyCalls >>
       ELSE /\ ppc' \in {"gotSome", "gotNone"}
            /\ UNCHANGED << coState, ran, at, boxAlloc, bodyCalls >>
    /\ UNCHANGED << mode, tasks, k, t, ret, mailbox, npolls, results, woken,
                    alive, stackAlloc >>
    /\ UNCHANGED << taskVars, cellVars, logVars >>

\* CoroutineFuture::poll, the match arms: the call returns.  In exec mode a
\* Ready result lets the async block go on to read the cell.
PollReturn ==
    /\ ppc \in {"gotSome", "gotNone"}
    /\ results' = Append(results, PollResult(ppc))
    /\ ppc' = IF mode = "exec" /\ PollResult(ppc) = "Ready"
              THEN "execRead" ELSE "idle"
    /\ UNCHANGED << mode, tasks, mailbox, npolls, ran, woken >>
    /\ UNCHANGED << coVars, taskVars, cellVars, resVars, logVars >>

\* CoroutineToken::exec, after the .await: unsafe { c.assume_init() }.
ExecRead ==
    /\ ppc = "execRead"
    /\ \E v \in CellRead(cell) : execOut' = v
    /\ cellReads' = cellReads + 1
    /\ ppc' = "idle"
    /\ UNCHANGED << mode, tasks, mailbox, npolls, results, ran, woken,
                    cell, cellWrites >>
    /\ UNCHANGED << coVars, taskVars, resVars, logVars >>

\* ----------------------------------------------------- coroutine side
\* Mutant of AfterTake: an empty mailbox is read again without a yield.
AfterTakeSpin(h) == IF h # NoHandle THEN "poll" ELSE "take"

\* await, inner loop: Some(a) => break a, None => self.coro.yield_(()).
AfterTake(h) == IF h # NoHandle THEN "poll" ELSE "yieldEmpty"

\* await, inner loop: match self.coro.user_data().take().
AwaitTake ==
    /\ coState = "Running"
    /\ at = "take"
    /\ LET r == Take(mailbox) IN
         /\ mailbox' = r.rest
         /\ t' = r.got
         /\ at' = AfterTake(r.got)
    /\ reads' = reads + 1
    /\ UNCHANGED << mode, tasks, coState, k, ret, ppc, npolls, results, ran,
                    woken, pollLog >>
    /\ UNCHANGED << taskVars, cellVars, resVars >>

\* Mutant of AfterAwait: exec's body returns without writing the cell.
AfterAwaitNoWrite(i) == IF i < NTasks THEN "take" ELSE "end"

\* Where the body goes after blockOn i returned: the next blockOn, or the
\* end of the body (in exec mode the cell write comes first).
AfterAwait(i) ==
    IF i < NTasks THEN "take"
    ELSE IF mode = "exec" THEN "write" ELSE "end"

\* Mutant of AwaitPoll: a Ready result does not end the loop; the output
\* is dropped, the coroutine yields and polls the task again.
AwaitPollNoReturn ==
    /\ coState = "Running"
    /\ at = "poll"
    /\ polled' = [polled EXCEPT ![k] = @ + 1]
    /\ pollLog' = Append(pollLog, [task |-> k, handle |-> t, during |-> npolls])
    /\ left' = [left EXCEPT ![k] = IF tasks[k].ends /\ @ > 0 THEN @ - 1 ELSE @]
    /\ holds' = [holds EXCEPT ![k] = t]
    /\ at' = "yieldPending"
    /\ UNCHANGED << ret, k, t >>
    /\ UNCHANGED << mode, tasks, yieldCnt, coState, mailbox, ppc, npolls,
                    results, ran, woken, reads >>
    /\ UNCHANGED << cellVars, resVars >>

\* await: match f.as_mut().poll(&mut Context::from_waker(&t)).
\* Ready(a) => return a (the local t is dropped); Pending => the task keeps
\* (a clone of) the waker and the coroutine goes on to yield, t still alive
\* until the loop body ends after the resume.
AwaitPoll ==
    /\ coState = "Running"
    /\ at = "poll"
    /\ polled' = [polled EXCEPT ![k] = @ + 1]
    /\ pollLog' = Append(pollLog, [task |-> k, handle |-> t, during |-> npolls])
    /\ IF InnerReady(k)
       THEN /\ ret' = tasks[k].val
            /\ at' = AfterAwait(k)
            /\ k' = k + 1
            /\ t' = NoHandle
            /\ UNCHANGED << left, holds >>
       ELSE /\ left' = [left EXCEPT ![k] = IF tasks[k].ends THEN @ - 1 ELSE @]
            /\ holds' = [holds EXCEPT ![k] = t]
            /\ at' = "yieldPending"
            /\ UNCHANGED << ret, k, t >>
    /\ UNCHANGED << mode, tasks, yieldCnt, coState, mailbox, ppc, npolls,
                    results, ran, woken, reads >>
    /\ UNCHANGED << cellVars, resVars >>

\* Mutant of YieldResumeAt: after a Pending the task is polled again with
\* the handle already in t, without going back to the mailbox.
YieldResumeReuse(a) == IF a = "yieldPending" THEN "poll" ELSE "take"

\* Where the coroutine continues when resumed after a yield: both yields
\* are the last statement of a loop iteration whose next iteration starts
\* with the take.
YieldResumeAt(a) == "take"

\* await: self.coro.yield_(()) in either loop.  Control returns to poll,
\* whose resume call yields Some; on the next resume the coroutine goes
\* back to the take.
AwaitYield ==
    /\ coState = "Running"
    /\ at \in {"yieldEmpty", "yieldPending"}
    /\ yieldCnt' = [yieldCnt EXCEPT ![k] = @ + 1]
    /\ coState' = "Suspended"
    /\ at' = YieldResumeAt(at)
    /\ ppc' = "gotSome"
    /\ UNCHANGED << mode, tasks, left, polled, holds, k, t, ret, mailbox,
                    npolls, results, ran, woken >>
    /\ UNCHANGED << cellVars, resVars, logVars >>

\* exec's body: let v = f(&a); c.write(v).
BodyWrite ==
    /\ coState = "Running"
    /\ at = "write"
    /\ cell' = CellWrite(cell, ret)
    /\ cellWrites' = cellWrites + 1
    /\ at' = "end"
    /\ UNCHANGED << mode, tasks, coState, k, t, ret, mailbox, ppc, npolls,
                    results, ran, woken, cellReads, execOut >>
    /\ UNCHANGED << taskVars, resVars, logVars >>

\* The body closure returns: the coroutine is finished and the resume call
\* in poll yields None.
BodyReturn ==
    /\ coState = "Running"
    /\ at = "end"
    /\ coState' = "Finished"
    /\ at' = "done"
    /\ ppc' = "gotNone"
    /\ UNCHANGED << mode, tasks, k, t, ret, mailbox, npolls, results, ran,
                    woken >>
    /\ UNCHANGED << taskVars, cellVars, resVars, logVars >>

\* ------------------------------------------------------- environment
\* A pending inner task invokes the handle it was last polled with.
Wake ==
    /\ ~woken
    /\ \E i \in 1..NTasks : holds[i] # NoHandle /\ ~(tasks[i].ends /\ polled[i] > tasks[i].need)
    /\ woken' = TRUE
    /\ UNCHANGED << mode, tasks, mailbox, ppc, npolls, results, ran >>
    /\ UNCHANGED << coVars, taskVars, cellVars, resVars, logVars >>

\* The owner drops the Wrapper (between poll calls): CoroutineFuture has no
\* Drop of its own, its Coroutine field is destroyed.  The Box made by new
\* is freed only by the coroutine function, not here.
Drop ==
    /\ alive
    /\ ppc = "idle"
    /\ alive' = FALSE
    /\ stackAlloc' = FALSE
    /\ UNCHANGED << mode, tasks, mailbox, ppc, npolls, results, ran, woken,
                    boxAlloc, bodyCalls >>
    /\ UNCHANGED << coVars, taskVars, cellVars, logVars >>

Next ==
    \/ PollRegister
    \/ PollResume
    \/ PollReturn
    \/ ExecRead
    \/ AwaitTake
    \/ AwaitPoll
    \/ AwaitYield
    \/ BodyWrite
    \/ BodyReturn
    \/ Wake
    \/ Drop

Spec == Init /\ [][Next]_vars

\* ---------------------------------------------- wake-driven executor
\* An executor that polls the Wrapper once when it is spawned and then only
\* after a handle has been invoked, and stops polling once the Wrapper has
\* reported "finished".
WakePoll ==
    /\ woken
    /\ \A i \in 1..Len(results) : results[i] # "Ready"
    /\ PollRegister

NextWake ==
    \/ WakePoll
    \/ PollResume
    \/ PollReturn
    \/ ExecRead
    \/ AwaitTake
    \/ AwaitPoll
    \/ AwaitYield
    \/ BodyWrite
    \/ BodyReturn
    \/ Wake

\* Every step that stays possible is eventually taken: the executor polls
\* when woken, a poll call runs to its return, a pending task eventually
\* invokes its handle.
WakeSpec == Init /\ [][NextWake]_vars /\ WF_vars(NextWake)

TypeOK ==
    /\ mode \in {"wrapper", "exec"}
    /\ tasks \in Bodies
    /\ coState \in {"NotStarted", "Running", "Suspended", "Finished"}
    /\ at \in {"entry", "take", "yieldEmpty", "poll", "yieldPending",
               "write", "end", "done"}
    /\ ppc \in {"idle", "deposited", "resumed", "gotSome", "gotNone",
                "execRead"}
    /\ mailbox \in 0..MaxPolls
    /\ npolls \in 0..MaxPolls
    /\ k \in 1..(NTasks + 1)

\* ====================================================================
\* Properties
\* ====================================================================

\* C1: a Wrapper whose body is one blockOn of a task that is "not ready" on
\* exactly N polls returns "not finished" from its first N poll calls and
\* "finished" from call N+1.
C1_NPendingThenReady ==
    (NTasks = 1 /\ tasks[1].ends) =>
        \A i \in 1..Len(results) :
            /\ i <= tasks[1].need => results[i] = "Pending"
            /\ i = tasks[1].need + 1 => results[i] = "Ready"

C1_Witness ==
    /\ NTasks = 1
    /\ tasks[1].ends
    /\ tasks[1].need = 2
    /\ results = << "Pending", "Pending", "Ready" >>

\* C2: in exec the output cell is read only after the Wrapper reported
\* "finished", and then it has been written exactly once by the body; while
\* the body has not returned the cell is not read and exec is not complete.
C2_ReadAfterOneWrite ==
    mode = "exec" =>
        /\ cellWrites <= 1
        /\ (ppc = "execRead" \/ cellReads > 0) =>
               /\ Len(results) > 0
               /\ results[Len(results)] = "Ready"
               /\ coState = "Finished"
               /\ cellWrites = 1
               /\ cell # Uninit
        /\ coState # "Finished" => (cellReads = 0 /\ execOut = Uninit)
        /\ cellReads <= 1

C2_Witness ==
    /\ mode = "exec"
    /\ cellReads = 1
    /\ cellWrites = 1
    /\ Len(results) = 3

\* C3: once the coroutine has finished, further Wrapper.poll calls execute
\* no step of the body, poll no inner task, and leave the state Finished.
C3_FinishedIsTerminal ==
    [][ coState = "Finished" =>
            /\ coState' = "Finished"
            /\ at' = at
            /\ k' = k
            /\ t' = t
            /\ ret' = ret
            /\ polled' = polled
            /\ left' = left
            /\ holds' = holds
            /\ yieldCnt' = yieldCnt
            /\ bodyCalls' = bodyCalls
            /\ cellWrites' = cellWrites
            /\ (ran' => ran) ]_vars

C3_Witness ==
    /\ coState = "Finished"
    /\ Len(results) = 3
    /\ results[1] = "Ready"
    /\ ppc = "idle"

\* C4: when exec(f) completes, it completes with the value f returned (the
\* output of the body's last blockOn), whatever the number of "not ready"
\* polls of the inner tasks.
C4_ExecReturnsBodyValue ==
    /\ execOut # Uninit => (mode = "exec" /\ execOut = tasks[NTasks].val)
    /\ (mode = "exec" /\ coState = "Finished") => cell = tasks[NTasks].val

C4_Witness ==
    /\ mode = "exec"
    /\ NTasks = 1
    /\ tasks[1].need = 2
    /\ tasks[1].val = 2
    /\ execOut = 2

\* C5 (as stated): every Wrapper.poll call deposits its handle and then
\* resumes the coroutine, returns "not finished" exactly when the coroutine
\* yielded during that resume and "finished" exactly when the body returned
\* during that resume.
C5_Original ==
    /\ ppc = "deposited" => mailbox = npolls
    /\ coState = "Running" => (ppc = "resumed" /\ mailbox \in {npolls, NoHandle})
    /\ ppc \in {"gotSome", "gotNone"} =>
           /\ PollResult(ppc) = "Pending" <=> (ran /\ coState = "Suspended")
           /\ PollResult(ppc) = "Ready" <=> (ran /\ coState = "Finished")

\* C5 (amended): every Wrapper.poll call deposits its handle before it calls
\* resume; a call made while the coroutine has not finished then resumes the
\* coroutine and returns "not finished" exactly when the coroutine yielded
\* during that resume and "finished" exactly when the body returned during
\* it; only a call made after the coroutine finished does not resume it.
C5_DepositThenResume ==
    /\ ppc = "deposited" => mailbox = npolls
    /\ coState = "Running" => (ppc = "resumed" /\ mailbox \in {npolls, NoHandle})
    /\ (ppc \in {"resumed", "gotSome", "gotNone"} /\ ~ran) => coState = "Finished"
    /\ (ppc \in {"gotSome", "gotNone"} /\ ran) =>
           /\ PollResult(ppc) = "Pending" <=> coState = "Suspended"
           /\ PollResult(ppc) = "Ready" <=> coState = "Finished"

C5_Witness ==
    /\ ppc = "gotSome"
    /\ ran
    /\ coState = "Suspended"
    /\ npolls = 2
    /\ holds[1] = 2

\* C6: when an inner task returns "not ready" the coroutine yields, and a
\* later wake and re-poll resumes it and polls the same task again; under
\* an executor that re-polls on every wake, with inner tasks that wake and
\* complete, the Wrapper eventually reports "finished".
C6_Original ==
    (\A i \in 1..NTasks : tasks[i].ends)
        ~> (results # << >> /\ results[Len(results)] = "Ready")

\* C7: a blockOn whose inner task completes on its first poll yields at most
\* once; when the body is only that blockOn the first Wrapper.poll call
\* returns "finished".
C7_ReadyTaskYieldsAtMostOnce ==
    /\ \A i \in 1..NTasks :
           (tasks[i].ends /\ tasks[i].need = 0) => yieldCnt[i] <= 1
    /\ (NTasks = 1 /\ tasks[1].ends /\ tasks[1].need = 0 /\ Len(results) >= 1)
           => results[1] = "Ready"

C7_Witness ==
    /\ NTasks = 2
    /\ tasks[2].ends
    /\ tasks[2].need = 0
    /\ yieldCnt[2] = 1
    /\ polled[2] = 1
    /\ coState = "Finished"

\* The moves of the Wrapper's state the claim C8 allows.
C8_Moves ==
    { << "NotStarted", "Running" >>, << "Running", "Suspended" >>,
      << "Suspended", "Running" >>, << "Running", "Finished" >> }

\* C8: the Wrapper's state moves only along NotStarted -> (Running <->
\* Suspended)* -> Finished; the body executes no step before the first poll;
\* the coroutine is Running only inside a Wrapper.poll call, while the
\* polling side waits in resume; every poll ends with the coroutine
\* Suspended or Finished; the state never returns to NotStarted.
C8_StateMachine ==
    /\ [](/\ npolls = 0 =>
                /\ coState = "NotStarted"
                /\ at = "entry"
                /\ bodyCalls = 0
                /\ \A i \in 1..NTasks : polled[i] = 0
          /\ coState = "Running" <=> ppc = "resumed"
          /\ ppc \in {"gotSome", "gotNone", "execRead"}
                => coState \in {"Suspended", "Finished"}
          /\ (ppc = "idle" /\ npolls > 0)
                => coState \in {"Suspended", "Finished"})
    /\ [][ /\ coState' # coState => << coState, coState' >> \in C8_Moves
           /\ (at' # at \/ k' # k \/ polled' # polled)
                 => (coState' = "Running" \/ coState = "Running") ]_vars

C8_Witness ==
    /\ coState = "Finished"
    /\ NTasks = 2
    /\ yieldCnt[1] = 2
    /\ yieldCnt[2] = 1
    /\ ppc = "idle"

\* C10: whenever Wrapper.poll returns "not finished" after resuming the
\* coroutine, the handle deposited by that poll is held by an inner task
\* that returned "not ready" during that poll.
C10_Original ==
    (ppc = "gotSome" /\ ran) =>
        \E i \in 1..NTasks :
            /\ holds[i] = npolls
            /\ ~(tasks[i].ends /\ polled[i] > tasks[i].need)

\* C11: every inner-task poll made by blockOn uses the handle deposited by
\* the Wrapper.poll call that caused the current resume, never a handle
\* deposited by an earlier call.
C11_FreshHandlePerPoll ==
    /\ \A i \in 1..Len(pollLog) :
           /\ pollLog[i].handle # NoHandle
           /\ pollLog[i].handle = pollLog[i].during
    /\ (coState = "Running" /\ at = "poll") => t = npolls

C11_Witness ==
    /\ Len(pollLog) = 3
    /\ pollLog[2].task = 1
    /\ pollLog[3].task = 1
    /\ pollLog[3].handle = 3
    /\ holds[1] = 2

\* C12: after every resume the coroutine's first mailbox read finds the
\* handle deposited by the Wrapper.poll that resumed it, never an empty
\* mailbox or an older handle; a read that finds the mailbox empty is never
\* the first one after a resume, so the wait-for-handle loop does not yield
\* twice in a row.
C12_FirstReadFindsHandle ==
    /\ (coState = "Running" /\ at = "take" /\ reads = 0) => mailbox = npolls
    /\ (coState = "Running" /\ reads = 1) =>
           (at # "yieldEmpty" /\ (at = "poll" => t = npolls))
    /\ at = "yieldEmpty" => reads >= 2

C12_Witness ==
    /\ coState = "Running"
    /\ reads = 1
    /\ at = "poll"
    /\ k = 2
    /\ yieldCnt[2] = 1
    /\ t = 2

\* C13: inside blockOn a "not ready" result of the inner task and a mailbox
\* read that finds no handle are each immediately followed by a yield: the
\* coroutine's next step after either event is the yield, with no further
\* poll of the task and no further mailbox read in between.
C13_YieldFollowsImmediately ==
    [][ /\ (reads' = reads + 1 /\ t' = NoHandle) => at' = "yieldEmpty"
        /\ (polled' # polled /\ k' = k) => at' = "yieldPending"
        /\ (coState = "Running" /\ at \in {"yieldEmpty", "yieldPending"}) =>
              \/ /\ coState' = "Suspended"
                 /\ yieldCnt' = [yieldCnt EXCEPT ![k] = @ + 1]
                 /\ polled' = polled
                 /\ reads' = reads
                 /\ mailbox' = mailbox
                 /\ pollLog' = pollLog
              \/ UNCHANGED << coVars, taskVars, cellVars, logVars, mailbox >>
      ]_vars

C13_Witness ==
    /\ NTasks = 2
    /\ tasks[1].need = 1
    /\ yieldCnt[1] = 1
    /\ yieldCnt[2] = 1
    /\ coState = "Suspended"
    /\ ppc = "idle"

\* C14: from a yield of the coroutine until the next deposit the mailbox is
\* empty, so a Wrapper.poll deposit made before the coroutine finishes
\* never overwrites a handle that was deposited and not consumed.
C14_MailboxEmptyWhenSuspended ==
    /\ []((coState = "Suspended" /\ ppc \in {"gotSome", "idle"})
             => mailbox = NoHandle)
    /\ [][ (npolls' # npolls /\ coState # "Finished") => mailbox = NoHandle ]_vars

C14_Witness ==
    /\ coState = "Suspended"
    /\ ppc = "deposited"
    /\ npolls = 3
    /\ mailbox = 3
    /\ yieldCnt[1] = 2

\* C15: each deposited handle is used for at most one inner-task poll and at
\* most one inner-task poll is made per Wrapper.poll call; a second blockOn
\* reached in the resume in which the first one's task completed polls its
\* task only in a later Wrapper.poll call.
C15_OneInnerPollPerPoll ==
    /\ \A i, j \in 1..Len(pollLog) :
           i < j => /\ pollLog[i].handle # pollLog[j].handle
                    /\ pollLog[i].during < pollLog[j].during
    /\ (coState = "Running" /\ at = "poll") =>
           \A i \in 1..Len(pollLog) : pollLog[i].during < npolls

C15_Witness ==
    /\ NTasks = 2
    /\ tasks[1].need = 0
    /\ Len(pollLog) = 2
    /\ pollLog[1] = [task |-> 1, handle |-> 1, during |-> 1]
    /\ pollLog[2] = [task |-> 2, handle |-> 2, during |-> 2]

\* C16: blockOn does not poll its inner task again after the task reported
\* completion; it returns at the first poll that reports completion, and
\* the value it returns to the body is that poll's output.
C16_NoPollAfterReady ==
    /\ \A i \in 1..NTasks :
           /\ tasks[i].ends => polled[i] <= tasks[i].need + 1
           /\ (tasks[i].ends /\ polled[i] = tasks[i].need + 1) => k > i
           /\ i < k => (tasks[i].ends /\ polled[i] = tasks[i].need + 1)
    /\ k > 1 => ret = tasks[k - 1].val

C16_Witness ==
    /\ NTasks = 2
    /\ tasks[1].need = 2
    /\ tasks[2].need = 1
    /\ tasks[1].val # tasks[2].val
    /\ polled = << 3, 2 >>
    /\ k = 3
    /\ ret = tasks[2].val

\* C17: the body closure is invoked at most once, and the Box that new
\* allocates for it has been released whenever the Wrapper is gone,
\* including a Wrapper dropped before its first poll.
C17_Original ==
    /\ bodyCalls <= 1
    /\ coState = "Finished" => ~boxAlloc
    /\ ~alive => ~boxAlloc

====
